---- MODULE Spec2Model ----
(***************************************************************************)
(* Model of the contact ETL pipeline (etl/scripts/main.py, transform.py,   *)
(* load.py) as a state machine: the durable store (contacts,               *)
(* contact_profiles, etl_runs) and the run-local state of main().          *)
(*                                                                         *)
(* Text values are sequences of one-character strings, so that trimming,   *)
(* lowercasing, phone cleaning and token_sort_ratio are computed, not      *)
(* assumed.  NULL (None / NaN / SQL NULL) is the tuple <<"NULL">>, which   *)
(* no text value equals.                                                   *)
(*                                                                         *)
(* Spec is the pipeline: runs of main() over listings of the file pool.    *)
(* SpecAssign is get_or_create_profile_id called on its own with any key   *)
(* list, on the same profile table.                                        *)
(***************************************************************************)
EXTENDS Integers, Sequences, FiniteSets, TLC

\* ------------------------------------------------------------------ bounds
\* invocations of main()
MaxRuns == 2
\* files listed by find_files over all invocations
MaxListed == 2
\* calls of get_or_create_profile_id that assign a profile, and the length of
\* the key list of a call, where the function is exercised on its own
MaxAssigns == 3
MaxKeys == 3

\* ------------------------------------------------------------ text values
NULL == <<"NULL">>

isna(v) == v = NULL

\* A cell that holds a number, not text (a numeric cell of a sheet among
\* text cells leaves the column with dtype object): the mark, then the
\* characters str() gives for it
Number(digits) == <<"NUMBER">> \o digits

IsNumber(v) == v # <<>> /\ Head(v) = "NUMBER"

\* str(v), and Series.astype(str) on one value
astype_str(v) ==
  IF isna(v) THEN <<"n", "a", "n">>
  ELSE IF IsNumber(v) THEN Tail(v) ELSE v

\* The printable ASCII characters in code-point order (Python compares str
\* values by code point); the double quote, the backslash and the backquote
\* are written as names.
Ascii ==
  << " ", "!", "DQUOTE", "#", "$", "%", "&", "'", "(", ")", "*", "+",
     ",", "-", ".", "/", "0", "1", "2", "3", "4", "5", "6", "7",
     "8", "9", ":", ";", "<", "=", ">", "?", "@", "A", "B", "C",
     "D", "E", "F", "G", "H", "I", "J", "K", "L", "M", "N", "O",
     "P", "Q", "R", "S", "T", "U", "V", "W", "X", "Y", "Z", "[",
     "BACKSLASH", "]", "^", "_", "BACKQUOTE", "a", "b", "c", "d", "e", "f", "g",
     "h", "i", "j", "k", "l", "m", "n", "o", "p", "q", "r", "s",
     "t", "u", "v", "w", "x", "y", "z", "{", "|", "}", "~" >>

Ord(c) == CHOOSE i \in 1..Len(Ascii) : Ascii[i] = c

IsSpace(c) == c = " "

IsUpper(c) == Ord(c) >= Ord("A") /\ Ord(c) <= Ord("Z")

IsLower(c) == Ord(c) >= Ord("a") /\ Ord(c) <= Ord("z")

IsAlpha(c) == IsUpper(c) \/ IsLower(c)

IsDigit(c) == Ord(c) >= Ord("0") /\ Ord(c) <= Ord("9")

\* str.lower() / str.upper() on one character
LowerChar(c) == IF IsUpper(c) THEN Ascii[Ord(c) + 32] ELSE c

UpperChar(c) == IF IsLower(c) THEN Ascii[Ord(c) - 32] ELSE c

lower(s) == [i \in 1..Len(s) |-> LowerChar(s[i])]

RECURSIVE lstrip(_)
lstrip(s) == IF s # <<>> /\ IsSpace(Head(s)) THEN lstrip(Tail(s)) ELSE s

RECURSIVE rstrip(_)
rstrip(s) ==
  IF s # <<>> /\ IsSpace(s[Len(s)]) THEN rstrip(SubSeq(s, 1, Len(s) - 1)) ELSE s

\* str.strip()
strip(s) == rstrip(lstrip(s))

\* Series.str.strip() keeps a missing value missing, and gives a missing
\* value for a value that is not text
str_strip(v) == IF isna(v) \/ IsNumber(v) THEN NULL ELSE strip(v)

\* s.startswith(p)
StartsWith(s, p) == Len(s) >= Len(p) /\ SubSeq(s, 1, Len(p)) = p

\* s.replace(old, new) for a non-empty old: every non-overlapping occurrence,
\* left to right
RECURSIVE replace(_, _, _)
replace(s, old, new) ==
  IF s = <<>> THEN <<>>
  ELSE IF StartsWith(s, old)
       THEN new \o replace(SubSeq(s, Len(old) + 1, Len(s)), old, new)
       ELSE <<Head(s)>> \o replace(Tail(s), old, new)

\* old in s
Contains(s, old) == \E i \in 1..Len(s) : StartsWith(SubSeq(s, i, Len(s)), old)

\* s.split(): the whitespace-separated tokens
RECURSIVE split_ws(_, _)
split_ws(s, cur) ==
  IF s = <<>> THEN (IF cur = <<>> THEN <<>> ELSE <<cur>>)
  ELSE IF IsSpace(Head(s))
       THEN (IF cur = <<>> THEN <<>> ELSE <<cur>>) \o split_ws(Tail(s), <<>>)
       ELSE split_ws(Tail(s), Append(cur, Head(s)))

split(s) == split_ws(s, <<>>)

\* s < t in Python's str ordering
RECURSIVE StrLess(_, _)
StrLess(s, t) ==
  IF t = <<>> THEN FALSE
  ELSE IF s = <<>> THEN TRUE
  ELSE IF Head(s) = Head(t) THEN StrLess(Tail(s), Tail(t))
  ELSE Ord(Head(s)) < Ord(Head(t))

\* insertion of x into a sorted list, after the elements not greater than it
RECURSIVE InsertSorted(_, _)
InsertSorted(x, l) ==
  IF l = <<>> THEN <<x>>
  ELSE IF StrLess(x, Head(l)) THEN <<x>> \o l
  ELSE <<Head(l)>> \o InsertSorted(x, Tail(l))

\* sorted(l) for a list of text values
RECURSIVE sorted(_)
sorted(l) == IF l = <<>> THEN <<>> ELSE InsertSorted(l[Len(l)], sorted(SubSeq(l, 1, Len(l) - 1)))

\* " ".join(tokens)
RECURSIVE join(_)
join(tokens) ==
  IF tokens = <<>> THEN <<>>
  ELSE IF Len(tokens) = 1 THEN tokens[1]
  ELSE tokens[1] \o <<" ">> \o join(Tail(tokens))

Max(a, b) == IF a >= b THEN a ELSE b

\* ------------------------------------------------- rapidfuzz (the scorer)
\* Length of a longest common subsequence of s and t.
RECURSIVE LCS(_, _)
LCS(s, t) ==
  IF s = <<>> \/ t = <<>> THEN 0
  ELSE IF Head(s) = Head(t) THEN 1 + LCS(Tail(s), Tail(t))
  ELSE Max(LCS(Tail(s), t), LCS(s, Tail(t)))

\* fuzz.ratio: the normalized Indel similarity, 100 * 2*LCS / (|s| + |t|),
\* kept as the exact fraction num/den (100 for two empty strings).
ratio(s, t) ==
  IF Len(s) + Len(t) = 0 THEN [num |-> 100, den |-> 1]
  ELSE [num |-> 200 * LCS(s, t), den |-> Len(s) + Len(t)]

\* fuzz.token_sort_ratio: the ratio of the two strings after their
\* whitespace-separated tokens are sorted and joined by single spaces.
token_sort_ratio(s, t) == ratio(join(sorted(split(s))), join(sorted(split(t))))

\* score >= cutoff, for an integer cutoff
ScoreGE(sc, cutoff) == sc.num >= cutoff * sc.den

\* score a > score b
ScoreGT(a, b) == a.num * b.den > b.num * a.den

\* process.extract(query, choices, scorer=fuzz.token_sort_ratio, limit=1,
\* score_cutoff=cutoff): the choices scoring at least the cutoff, best first
\* (the earliest choice among equal scores), cut to one; each result is
\* (choice, score, index).  A choice that is None is skipped.
\* process.extract with the cutoff taken as exclusive
extract_one_above_cutoff(query, choices, cutoff) ==
  LET hits == {i \in 1..Len(choices) :
                 /\ ~isna(choices[i])
                 /\ ScoreGT(token_sort_ratio(query, choices[i]),
                            [num |-> cutoff, den |-> 1])}
  IN IF hits = {} THEN <<>>
     ELSE LET best == CHOOSE i \in hits :
                        \A j \in hits :
                          \/ ScoreGT(token_sort_ratio(query, choices[i]),
                                     token_sort_ratio(query, choices[j]))
                          \/ /\ ~ScoreGT(token_sort_ratio(query, choices[j]),
                                         token_sort_ratio(query, choices[i]))
                             /\ i <= j
          IN <<[choice |-> choices[best],
                score |-> token_sort_ratio(query, choices[best]),
                index |-> best]>>

extract_one(query, choices, cutoff) ==
  LET hits == {i \in 1..Len(choices) :
                 /\ ~isna(choices[i])
                 /\ ScoreGE(token_sort_ratio(query, choices[i]), cutoff)}
  IN IF hits = {} THEN <<>>
     ELSE LET best == CHOOSE i \in hits :
                        \A j \in hits :
                          \/ ScoreGT(token_sort_ratio(query, choices[i]),
                                     token_sort_ratio(query, choices[j]))
                          \/ /\ ~ScoreGT(token_sort_ratio(query, choices[j]),
                                         token_sort_ratio(query, choices[i]))
                             /\ i <= j
          IN <<[choice |-> choices[best],
                score |-> token_sort_ratio(query, choices[best]),
                index |-> best]>>

\* ------------------------------------------------------------ sequences
RECURSIVE SelectIdx(_, _, _)
\* the indices i of 1..n, ascending, for which Keep[i] holds
SelectIdx(n, Keep, i) ==
  IF i > n THEN <<>>
  ELSE (IF Keep[i] THEN <<i>> ELSE <<>>) \o SelectIdx(n, Keep, i + 1)

\* df[mask]: the rows of df whose mask entry is TRUE, in order
Filter(df, mask) ==
  LET idx == SelectIdx(Len(df), mask, 1)
  IN [k \in 1..Len(idx) |-> df[idx[k]]]

\* ------------------------------------------------------- configuration
\* config.yaml, data_source_profiles.<profile>.promotion_rules: for each
\* promoted column the original columns that may supply it, in priority order.
promotion_rules ==
  [company_name |-> <<"Company", "Name">>,
   url          |-> <<"Website">>,
   phone_number |-> <<"Phone">>,
   is_b2b       |-> <<"B2B">>]

\* The original column names the files use, in code-point order.
ColumnNames == <<"B2B", "Company", "Name", "Phone", "Website", "url">>

KeyOrd(k) == CHOOSE i \in 1..Len(ColumnNames) : ColumnNames[i] = k

RECURSIVE InsertKey(_, _)
InsertKey(k, l) ==
  IF l = <<>> THEN <<k>>
  ELSE IF KeyOrd(k) < KeyOrd(Head(l)) THEN <<k>> \o l
  ELSE <<Head(l)>> \o InsertKey(k, Tail(l))

\* sorted(l) for a list of column names
RECURSIVE sorted_keys(_)
sorted_keys(l) ==
  IF l = <<>> THEN <<>>
  ELSE InsertKey(l[Len(l)], sorted_keys(SubSeq(l, 1, Len(l) - 1)))

\* ------------------------------------------------ transform.py: normalize
\* A raw file is [name, columns, rows]: columns is df.columns, each row maps
\* every column to a text value or NULL (NaN).

\* ---- json.dumps and json.loads on a flat mapping, written as the list of
\* its <<key, value>> pairs.  A key is the one-symbol text <<column name>>.
RECURSIVE json_escape(_)
json_escape(s) ==
  IF s = <<>> THEN <<>>
  ELSE (IF Head(s) \in {"DQUOTE", "BACKSLASH"}
        THEN <<"BACKSLASH", Head(s)>> ELSE <<Head(s)>>) \o json_escape(Tail(s))

json_dumps_str(s) == <<"DQUOTE">> \o json_escape(s) \o <<"DQUOTE">>

\* None gives null, a number its digits, a str a quoted string
json_dumps_value(v) ==
  IF isna(v) THEN <<"n", "u", "l", "l">>
  ELSE IF IsNumber(v) THEN Tail(v)
  ELSE json_dumps_str(v)

RECURSIVE json_dumps_items(_)
json_dumps_items(pairs) ==
  IF pairs = <<>> THEN <<>>
  ELSE json_dumps_str(pairs[1][1]) \o <<":", " ">>
         \o json_dumps_value(pairs[1][2])
         \o (IF Len(pairs) > 1 THEN <<",", " ">> ELSE <<>>)
         \o json_dumps_items(Tail(pairs))

json_dumps(pairs) == <<"{">> \o json_dumps_items(pairs) \o <<"}">>

\* The string whose opening quote is just before s[i]: its text, and the
\* position after its closing quote
RECURSIVE json_scan_str(_, _, _)
json_scan_str(s, i, acc) ==
  IF s[i] = "DQUOTE" THEN [val |-> acc, next |-> i + 1]
  ELSE IF s[i] = "BACKSLASH"
       THEN json_scan_str(s, i + 2, Append(acc, s[i + 1]))
       ELSE json_scan_str(s, i + 1, Append(acc, s[i]))

RECURSIVE json_scan_number(_, _, _)
json_scan_number(s, i, acc) ==
  IF s[i] \in {",", "}"} THEN [val |-> Number(acc), next |-> i]
  ELSE json_scan_number(s, i + 1, Append(acc, s[i]))

json_parse_value(s, i) ==
  IF s[i] = "DQUOTE" THEN json_scan_str(s, i + 1, <<>>)
  ELSE IF i + 3 <= Len(s) /\ SubSeq(s, i, i + 3) = <<"n", "u", "l", "l">>
       THEN [val |-> NULL, next |-> i + 4]
       ELSE json_scan_number(s, i, <<>>)

\* position of the next member, or of the closing brace
json_after_value(s, i) == IF s[i] = "," THEN i + 2 ELSE i

\* the members from s[i] on, added to acc; key k is followed by ": "
RECURSIVE json_parse_members(_, _, _)
json_parse_pair(s, key, v, acc) ==
  json_parse_members(s, json_after_value(s, v.next), Append(acc, <<key, v.val>>))

json_parse_value_of(s, k, acc) ==
  json_parse_pair(s, k.val, json_parse_value(s, k.next + 2), acc)

json_parse_members(s, i, acc) ==
  IF s[i] = "}" THEN acc
  ELSE json_parse_value_of(s, json_scan_str(s, i + 1, <<>>), acc)

json_loads(s) == json_parse_members(s, 2, <<>>)

\* The coalescing loop with a later source column overriding an earlier one
RECURSIVE Coalesce_last_wins(_, _, _)
Coalesce_last_wins(row, columns, source_options) ==
  IF source_options = <<>> THEN NULL
  ELSE IF /\ \E i \in 1..Len(columns) :
               columns[i] = source_options[Len(source_options)]
          /\ ~isna(row[source_options[Len(source_options)]])
       THEN row[source_options[Len(source_options)]]
       ELSE Coalesce_last_wins(row, columns,
              SubSeq(source_options, 1, Len(source_options) - 1))

\* The coalescing loop of one promotion rule on one row: the value of the
\* first source column that is a column of the file and is not null there.
RECURSIVE Coalesce(_, _, _)
Coalesce(row, columns, source_options) ==
  IF source_options = <<>> THEN NULL
  ELSE IF /\ \E i \in 1..Len(columns) : columns[i] = Head(source_options)
          /\ ~isna(row[Head(source_options)])
       THEN row[Head(source_options)]
       ELSE Coalesce(row, columns, Tail(source_options))

\* The rows of a frame after promotion, as the columns of the file would
\* read then: a column named like a promoted column holds the promoted value
raw_json_row_after_promotion(row, columns) ==
  [j \in 1..Len(columns) |->
     <<<<columns[j]>>,
       IF columns[j] \in DOMAIN promotion_rules
       THEN Coalesce(row, columns, promotion_rules[columns[j]])
       ELSE row[columns[j]]>>]

\* One row of raw_json_df = df.replace({np.nan: None}), taken before any
\* column is promoted, as row.to_dict() gives it: a missing value is None
raw_json_row(row, columns) ==
  [j \in 1..Len(columns) |-> <<<<columns[j]>>, row[columns[j]]>>]

\* The values of the nullable boolean column is_b2b; pd.NA is NULL
pdTrue == <<"True">>

pdFalse == <<"False">>

\* b2b_map with a value it does not list taken for False
b2b_or_false(text) ==
  IF text \in {<<"y", "e", "s">>, <<"t", "r", "u", "e">>, <<"1">>}
  THEN pdTrue ELSE pdFalse

\* Series.map(b2b_map): a value the map does not list becomes NaN
b2b_map(text) ==
  IF text \in {<<"y", "e", "s">>, <<"t", "r", "u", "e">>, <<"1">>}
  THEN pdTrue
  ELSE IF text \in {<<"n", "o">>, <<"f", "a", "l", "s", "e">>, <<"0">>}
       THEN pdFalse
       ELSE NULL

\* df['is_b2b'].astype(str).str.lower().map(b2b_map).astype('boolean')
standardize_is_b2b(v) == b2b_map(lower(astype_str(v)))

\* apply_transformations: (final_df, json_keys)
apply_transformations(file) ==
  [df |-> [i \in 1..Len(file.rows) |->
             [company_name |-> Coalesce(file.rows[i], file.columns,
                                        promotion_rules.company_name),
              url          |-> Coalesce(file.rows[i], file.columns,
                                        promotion_rules.url),
              phone_number |-> Coalesce(file.rows[i], file.columns,
                                        promotion_rules.phone_number),
              is_b2b       |-> standardize_is_b2b(
                                 Coalesce(file.rows[i], file.columns,
                                          promotion_rules.is_b2b)),
              additional_info |->
                json_dumps(raw_json_row(file.rows[i], file.columns))]],
   json_keys |-> sorted_keys(file.columns)]

\* ---------------------------------------------------- transform.py: clean
\* s.find(c) as a 1-based position, 0 when c is not in s
FindChar(s, c) ==
  IF \E i \in 1..Len(s) : s[i] = c
  THEN CHOOSE i \in 1..Len(s) : s[i] = c /\ \A j \in 1..(i - 1) : s[j] # c
  ELSE 0

IsSchemeChar(c) == IsAlpha(c) \/ IsDigit(c) \/ c \in {"+", "-", "."}

\* urlsplit: an initial "scheme:" is split off when the text before the
\* first colon is a letter followed by scheme characters.
strip_scheme(url) ==
  LET i == FindChar(url, ":")
  IN IF i > 1 /\ IsAlpha(url[1]) /\ \A j \in 1..(i - 1) : IsSchemeChar(url[j])
     THEN SubSeq(url, i + 1, Len(url))
     ELSE url

\* _splitnetloc: the text up to the first "/", "?" or "#"
until_delim(body) ==
  LET ends == {j \in 1..Len(body) : body[j] \in {"/", "?", "#"}}
  IN IF ends = {} THEN body
     ELSE SubSeq(body, 1, (CHOOSE j \in ends : \A k \in ends : j <= k) - 1)

\* what follows the scheme has a network location only if it starts "//"
netloc_of(rest) ==
  IF StartsWith(rest, <<"/", "/">>)
  THEN until_delim(SubSeq(rest, 3, Len(rest)))
  ELSE <<>>

\* urlparse(url).netloc
netloc(url) == netloc_of(strip_scheme(url))

\* str.capitalize()
capitalize(s) ==
  [i \in 1..Len(s) |-> IF i = 1 THEN UpperChar(s[i]) ELSE LowerChar(s[i])]

\* s.split('.')[0]
FirstLabel(s) ==
  LET i == FindChar(s, ".") IN IF i = 0 THEN s ELSE SubSeq(s, 1, i - 1)

\* company_name.capitalize() if company_name else None
capitalize_or_none(company_name) ==
  IF company_name # <<>> THEN capitalize(company_name) ELSE NULL

\* derive_name_from_url from the netloc on
name_of_netloc(loc) ==
  IF loc = <<>> THEN NULL
  ELSE capitalize_or_none(FirstLabel(replace(loc, <<"w", "w", "w", ".">>, <<>>)))

\* Ensure URL has a scheme for proper parsing
with_scheme(url) ==
  IF Contains(url, <<":", "/", "/">>) THEN url
  ELSE <<"h", "t", "t", "p", ":", "/", "/">> \o url

derive_name_from_url(url) ==
  IF isna(url) THEN NULL ELSE name_of_netloc(netloc(with_scheme(url)))

\* company_name.isnull() | (company_name.astype(str).str.strip() == '')
missing_name(r) ==
  isna(r.company_name) \/ strip(astype_str(r.company_name)) = <<>>

RECURSIVE RemoveChars(_, _)
RemoveChars(s, drop) ==
  IF s = <<>> THEN <<>>
  ELSE (IF Head(s) \in drop THEN <<>> ELSE <<Head(s)>>) \o RemoveChars(Tail(s), drop)

clean_phone(phone) ==
  IF isna(phone) THEN NULL
  ELSE LET a == replace(phone, <<"n", "a", "n">>, <<>>)
           b == replace(a, <<"N", "o", "n", "e">>, <<>>)
           cleaned == RemoveChars(b, {"(", ")", "-", " "})
       IN IF cleaned # <<>> THEN cleaned ELSE NULL

\* df.duplicated(subset=['phone_number'], keep='first'): row i repeats the
\* phone_number of an earlier row; pandas counts missing values as equal to
\* each other here.
duplicated(df) ==
  [i \in 1..Len(df) |->
     \E j \in 1..(i - 1) : df[j].phone_number = df[i].phone_number]

\* Attempt to fill missing company names from URLs: fillna replaces a None
\* name only, a blank one is left as it is.
fill_names(df) ==
  [i \in 1..Len(df) |->
     IF missing_name(df[i]) /\ isna(df[i].company_name)
     THEN [df[i] EXCEPT !.company_name = derive_name_from_url(df[i].url)]
     ELSE df[i]]

\* invalid_rows_mask
invalid_rows_mask(df) == [i \in 1..Len(df) |-> missing_name(df[i])]

Not(mask) == [i \in DOMAIN mask |-> ~mask[i]]

\* df['phone_number'].apply(clean_phone)
clean_phones(df) ==
  [i \in 1..Len(df) |-> [df[i] EXCEPT !.phone_number = clean_phone(@)]]

\* str.strip() on every object column but additional_info and tags
trim_columns(df) ==
  [i \in 1..Len(df) |->
     [company_name |-> str_strip(df[i].company_name),
      url          |-> str_strip(df[i].url),
      phone_number |-> str_strip(df[i].phone_number),
      is_b2b       |-> df[i].is_b2b,
      additional_info |-> df[i].additional_info]]

\* the rows that pass validation, with phones cleaned and text trimmed
validated(filled) ==
  trim_columns(clean_phones(Filter(filled, Not(invalid_rows_mask(filled)))))

\* the result of clean_data from the frame with names filled in (filled)
\* and the validated, trimmed frame (trimmed)
clean_result(filled, trimmed) ==
  [df         |-> Filter(trimmed, Not(duplicated(trimmed))),
   invalid    |-> Filter(filled, invalid_rows_mask(filled)),
   duplicates |-> Filter(trimmed, duplicated(trimmed))]

clean_from_filled(filled) == clean_result(filled, validated(filled))

\* clean_data: the cleaned frame, and what went to the two side sinks
clean_data(df) == clean_from_filled(fill_names(df))

\* ------------------------------------------------------------ input files
\* The files a source directory may hold.  Names use letters and spaces
\* only, so the scorer sees the same text with or without rapidfuzz's
\* default preprocessing.
FilePool ==
  << \* 1: three contacts; the columns are listed out of order
     [name |-> "a.csv", columns |-> <<"Phone", "Company">>,
      rows |-> << [Company |-> <<"A", "b", " ", "C", "d">>,
                   Phone |-> <<"(", "1", ")", " ", "2">>],
                  [Company |-> <<"X", "y">>, Phone |-> NULL],
                  [Company |-> <<"A", "c", "m", "e">>,
                   Phone |-> <<"(", "5", "5", "5", ")", " ", "1", "2", "3",
                               "-", "4", "5", "6", "7">>] >>],
     \* 2: the phone of 1 written differently; the name of 1 with its tokens
     \*    swapped (score 100); a name one letter off it (score 80)
     [name |-> "b.csv", columns |-> <<"Company", "Phone">>,
      rows |-> << [Company |-> <<"Q", "r">>, Phone |-> <<"1", "-", "2">>],
                  [Company |-> <<"c", "d", " ", "A", "B">>,
                   Phone |-> <<"2", "1">>],
                  [Company |-> <<"A", "b", " ", "C", "x">>,
                   Phone |-> <<"5">>] >>],
     \* 3: a partial name match, a name derived from the url (no phone), a
     \*    row with a blank name, a phone repeated inside the file, and a second
     \*    row without a phone
     [name |-> "c.csv", columns |-> <<"Name", "Phone", "Website", "B2B">>,
      rows |-> << [Name |-> <<"A", "b">>, Phone |-> <<"3">>, Website |-> NULL,
                   B2B |-> <<"N", "o">>],
                  [Name |-> NULL, Phone |-> NULL,
                   Website |-> <<"w", "w", "w", ".", "z", "k", ".", "c", "/", "d">>,
                   B2B |-> <<"U", "n", "k", "n", "o", "w", "n">>],
                  [Name |-> <<" ">>, Phone |-> <<"4">>,
                   Website |-> <<"w", "w", "w", ".", "u", "v", ".", "c">>,
                   B2B |-> <<"Y", "e", "s">>],
                  [Name |-> <<"M", "n">>, Phone |-> <<" ", "3">>, Website |-> NULL,
                   B2B |-> NULL],
                  [Name |-> <<"O", "p">>, Phone |-> NULL, Website |-> NULL,
                   B2B |-> <<"0">>] >>],
     \* 4: a file extraction cannot read (an empty frame)
     [name |-> "d.xlsx", columns |-> <<>>, rows |-> <<>>],
     \* 5: a sheet whose name column holds a text cell and a numeric cell,
     \*    and which has a column named like a promoted column
     \*    and both source columns of company_name
     [name |-> "e.xlsx",
      columns |-> <<"Company", "Name", "Phone", "url", "B2B">>,
      rows |-> << [Company |-> <<"E", "f">>, Name |-> <<"G", "h">>,
                   Phone |-> <<"8">>, url |-> <<"q", "DQUOTE", "r">>,
                   B2B |-> <<"T", "R", "U", "E">>],
                  [Company |-> Number(<<"7">>), Name |-> NULL,
                   Phone |-> <<"9">>, url |-> NULL, B2B |-> Number(<<"1">>)],
                  [Company |-> NULL, Name |-> <<"I", "j">>,
                   Phone |-> <<"6">>, url |-> NULL,
                   B2B |-> <<"f", "a", "l", "s", "e">>] >>] >>

\* company_name_threshold values a configuration may set
Thresholds == {80}

\* ------------------------------------------------------------------ state
VARIABLES
  contacts,            \* table contacts: rows in insertion order
  contact_profiles,    \* table contact_profiles: row i has id i
  etl_runs,            \* table etl_runs: row i has id i
  pc,                  \* where main() stands
  runs,                \* invocations of main() so far
  listed,              \* files listed so far, over all invocations
  dry_run,             \* --dry-run
  enable_fuzzy_matching, company_name_threshold,   \* config.deduplication
  run_id,              \* 0 is None
  total_contacts_added, processed_files, pipeline_status,
  existing_names, existing_phones,                 \* the dedup index
  files_to_process, file_idx,                      \* the for loop
  final_df,            \* apply_transformations' frame for the latest file
  cleaned,             \* clean_data's result for the latest file
  after_phone,         \* cleaned_df after the phone filter
  cleaned_df,          \* cleaned_df after deduplication
  potential_duplicates_to_review,
  json_keys,
  profile_id,          \* what get_or_create_profile_id returned (0 is None)
  stages,              \* the calls of the latest iteration that was not
                       \* skipped, in the order they were made
  last_load,           \* the latest iteration that got as far as the load:
                       \* its position in the listing, and "ok" or "raised"
                       \* for load_to_db ("none": dry run, nothing called)
  connections          \* the calls of get_or_create_profile_id under way at
                       \* the same time, one per caller: where each stands
                       \* inside its `with engine.connect()`.  main() makes
                       \* one call at a time, start to end within its step.

db == <<contacts, contact_profiles, etl_runs>>

config == <<dry_run, enable_fuzzy_matching, company_name_threshold>>

audit == <<run_id, total_contacts_added, processed_files, pipeline_status>>

index == <<existing_names, existing_phones>>

loop == <<files_to_process, file_idx>>

batch == <<final_df, cleaned, after_phone, cleaned_df, potential_duplicates_to_review,
           json_keys, profile_id, stages, last_load, connections>>

vars == <<db, pc, runs, listed, config, audit, index, loop, batch>>

EmptyClean == [df |-> <<>>, invalid |-> <<>>, duplicates |-> <<>>]

\* The callers that may run get_or_create_profile_id side by side
Callers == {1, 2}

\* A caller that is not inside get_or_create_profile_id and has not called it
NotCalling ==
  [at |-> "out", sorted_keys |-> <<>>, found |-> 0, returned |-> 0]

NoConnections == [c \in Callers |-> NotCalling]

NoBatch ==
  /\ final_df' = <<>>
  /\ cleaned' = EmptyClean
  /\ after_phone' = <<>>
  /\ cleaned_df' = <<>>
  /\ potential_duplicates_to_review' = <<>>
  /\ json_keys' = <<>>
  /\ profile_id' = 0
  /\ stages' = <<>>
  /\ last_load' = [file |-> 0, result |-> "none"]
  /\ connections' = NoConnections

\* main() is not running: its locals do not exist, and are written here as
\* the values they have before the first run
NoLocals ==
  /\ dry_run' = FALSE
  /\ enable_fuzzy_matching' = TRUE
  /\ company_name_threshold' = 80
  /\ run_id' = 0
  /\ total_contacts_added' = 0
  /\ processed_files' = <<>>
  /\ pipeline_status' = "completed"
  /\ existing_names' = <<>>
  /\ existing_phones' = <<>>
  /\ files_to_process' = <<>>
  /\ file_idx' = 1
  /\ NoBatch

Init ==
  /\ contacts = <<>>
  /\ contact_profiles = <<>>
  /\ etl_runs = <<>>
  /\ pc = "idle"
  /\ runs = 0
  /\ listed = 0
  /\ dry_run = FALSE
  /\ enable_fuzzy_matching = TRUE
  /\ company_name_threshold = 80
  /\ run_id = 0
  /\ total_contacts_added = 0
  /\ processed_files = <<>>
  /\ pipeline_status = "completed"
  /\ existing_names = <<>>
  /\ existing_phones = <<>>
  /\ files_to_process = <<>>
  /\ file_idx = 1
  /\ final_df = <<>>
  /\ cleaned = EmptyClean
  /\ after_phone = <<>>
  /\ cleaned_df = <<>>
  /\ potential_duplicates_to_review = <<>>
  /\ json_keys = <<>>
  /\ profile_id = 0
  /\ stages = <<>>
  /\ last_load = [file |-> 0, result |-> "none"]
  /\ connections = NoConnections

\* ------------------------------------------------------- main(): run start
\* The audit record inserted without `if not dry_run`
CreateRunRecord_in_any_mode(ok) ==
  IF ok
  THEN /\ etl_runs' = Append(etl_runs,
                         [status |-> "running", files_processed |-> NULL,
                          contacts_added |-> NULL, finished_at |-> NULL])
       /\ run_id' = Len(etl_runs) + 1
  ELSE /\ UNCHANGED etl_runs
       /\ run_id' = 0

\* The audit record: INSERT INTO etl_runs ... RETURNING id, then commit
\* (skipped in a dry run).  When the statement or the commit raises, the
\* error is logged and no row is stored; the run then has no audit record.
\* (When it is the commit that raises, run_id keeps the id of a row that was
\* rolled back; the serial is not handed out again, so the UPDATE at the end
\* matches no row, which is what run_id 0 does here.)
CreateRunRecord(ok) ==
  IF ~dry_run' /\ ok
  THEN /\ etl_runs' = Append(etl_runs,
                         [status |-> "running", files_processed |-> NULL,
                          contacts_added |-> NULL, finished_at |-> NULL])
       /\ run_id' = Len(etl_runs) + 1
  ELSE /\ UNCHANGED etl_runs
       /\ run_id' = 0

\* A read that fails after the names were assigned: the phones stay empty
LoadExisting_names_only(ok) ==
  IF dry_run'
  THEN /\ existing_names' = <<>>
       /\ existing_phones' = <<>>
  ELSE /\ existing_names' =
            [i \in 1..Len(contacts) |-> lower(contacts[i].company_name)]
       /\ existing_phones' =
            IF ok THEN [i \in 1..Len(contacts) |-> contacts[i].phone_number]
            ELSE <<>>

\* Load existing contacts for deduplication (live mode only); a failing
\* read_sql is caught and leaves both lists empty.
LoadExisting(ok) ==
  IF ~dry_run' /\ ok
  THEN /\ existing_names' =
            [i \in 1..Len(contacts) |-> lower(contacts[i].company_name)]
       /\ existing_phones' =
            [i \in 1..Len(contacts) |-> contacts[i].phone_number]
  ELSE /\ existing_names' = <<>>
       /\ existing_phones' = <<>>

\* main() left with an audit record written before the engine is asked for
NoEngine_after_audit(engine) ==
  /\ pc' = IF engine = "unset" THEN "halted" ELSE "crashed"
  /\ NoLocals
  /\ etl_runs' = Append(etl_runs,
                    [status |-> "running", files_processed |-> NULL,
                     contacts_added |-> NULL, finished_at |-> NULL])
  /\ UNCHANGED listed

\* main() ends before its try block: get_db_engine raised ValueError, which
\* is logged and followed by return ("halted"), or engine.connect() raised
\* and the exception leaves main ("crashed").  Nothing was written.
NoEngine(engine) ==
  /\ pc' = IF engine = "unset" THEN "halted" ELSE "crashed"
  /\ NoLocals
  /\ UNCHANGED <<etl_runs, listed>>

\* File f of the pool matches *.xlsx (the others match *.csv)
IsXlsx(f) == f >= 4

\* The listings find_files may return: the paths are distinct, those matching
\* *.csv come first, in the order glob yields them, then those matching
\* *.xlsx; n is what is left of MaxListed.
FileLists(n) ==
  UNION {{f \in [1..k -> 1..Len(FilePool)] :
            /\ \A i \in 1..k : \A j \in 1..k : f[i] = f[j] => i = j
            /\ \A i \in 1..k : \A j \in 1..k :
                 (IsXlsx(f[i]) /\ ~IsXlsx(f[j])) => j < i} : k \in 0..n}

\* main() up to the for loop.  dr, fz, th: the --dry-run flag and the
\* deduplication settings of config.yaml.  engine: "ok", or "unset" when
\* DATABASE_URL is missing (get_db_engine raises ValueError, main returns),
\* or "down" when engine.connect() raises before the try (main is left by
\* the exception).  audit_ok, read_ok: whether the audit insert and the read
\* of the known contacts succeed.  list_ok: FALSE when listing the directory
\* raises, which the main try catches.
Begin(dr, fz, th, engine, audit_ok, read_ok, list_ok, files) ==
  /\ pc \in {"idle", "done", "halted", "crashed"}
  /\ runs < MaxRuns
  /\ runs' = runs + 1
  /\ UNCHANGED <<contacts, contact_profiles>>
  /\ IF engine = "unset" \/ (engine = "down" /\ ~dr)
     THEN NoEngine(engine)
     ELSE /\ dry_run' = dr
          /\ enable_fuzzy_matching' = fz
          /\ company_name_threshold' = th
          /\ total_contacts_added' = 0
          /\ processed_files' = <<>>
          /\ file_idx' = 1
          /\ NoBatch
          /\ CreateRunRecord(audit_ok)
          /\ LoadExisting(read_ok)
          /\ IF list_ok
             THEN /\ files_to_process' = files
                  /\ listed' = listed + Len(files)
                  /\ pipeline_status' = "completed"
                  /\ pc' = "loop"
             ELSE /\ files_to_process' = <<>>
                  /\ UNCHANGED listed
                  /\ pipeline_status' = "failed"
                  /\ pc' = "finally"

\* ----------------------------------------------- main(): deduplication
\* Series.isin(values): membership in the list; a missing value is a member
\* when the list holds a missing value.
isin(v, values) == \E i \in 1..Len(values) : values[i] = v

\* No phone filter: the frame goes on as it is.
phone_filter_off(df, phones) == df

\* cleaned_df[~cleaned_df['phone_number'].isin(existing_phones)]
phone_filter(df, phones) ==
  Filter(df, [i \in 1..Len(df) |-> ~isin(df[i].phone_number, phones)])

\* The fuzzy loop's verdict on one row: its lowercased name is not empty and
\* process.extract returns a match.
fuzzy_match(row, names, cutoff) ==
  LET company_name == lower(astype_str(row.company_name))
  IN IF company_name = <<>> THEN <<>>
     ELSE extract_one(company_name, names, cutoff)

\* The fuzzy loop over the frame the phone filter left: the rows with a
\* match go to the review list and are dropped.
fuzzy_flags(df, names, fuzzy, cutoff) ==
  [i \in 1..Len(df) |-> fuzzy /\ fuzzy_match(df[i], names, cutoff) # <<>>]

fuzzy_filter(kept, flagged) ==
  [after_phone |-> kept,
   accepted    |-> Filter(kept, Not(flagged)),
   review      |-> Filter(kept, flagged)]

dedup_kept(kept, names, fuzzy, cutoff) ==
  fuzzy_filter(kept, fuzzy_flags(kept, names, fuzzy, cutoff))

\* The deduplication of one cleaned frame against the index.
deduplicate(df, phones, names, fuzzy, cutoff) ==
  dedup_kept(phone_filter(df, phones), names, fuzzy, cutoff)

CurrentFile == FilePool[files_to_process[file_idx]]

\* What apply_transformations and clean_data make of each file of the pool
\* (they read nothing but the file and the configuration)
Transformed == [f \in 1..Len(FilePool) |-> apply_transformations(FilePool[f])]

Cleaned == [f \in 1..Len(FilePool) |-> clean_data(Transformed[f].df)]

\* ------------------------------------------------------ load.py: loading
\* hashlib.md5(str(sorted_keys)).hexdigest(): the digest is taken to be
\* collision-free, a tag on the text it digests.
md5(text) == [md5 |-> text]

\* SELECT id FROM contact_profiles WHERE profile_hash = :hash (0: no row)
find_profile(profiles, hash) ==
  IF \E i \in 1..Len(profiles) : profiles[i].profile_hash = hash
  THEN CHOOSE i \in 1..Len(profiles) :
         /\ profiles[i].profile_hash = hash
         /\ \A j \in 1..(i - 1) : profiles[j].profile_hash # hash
  ELSE 0

\* The two branches of get_or_create_profile_id once the lookup is done
\* (found is the id the SELECT returned, 0 for none); contact_count has
\* DEFAULT 1.
update_or_insert_profile(profiles, keys, profile_hash, found) ==
  IF found # 0
  THEN [profiles |-> [profiles EXCEPT ![found].contact_count = @ + 1],
        id |-> found]
  ELSE [profiles |-> Append(profiles,
                       [profile_hash |-> profile_hash,
                        json_keys |-> keys,
                        contact_count |-> 1]),
        id |-> Len(profiles) + 1]

\* get_or_create_profile_id without `if not json_keys: return None`
get_or_create_profile_id_unguarded(profiles, keys) ==
  update_or_insert_profile(profiles, sorted_keys(keys),
    md5(sorted_keys(keys)),
    find_profile(profiles, md5(sorted_keys(keys))))

\* get_or_create_profile_id, committed: the profile table afterwards and the
\* id returned (0 is None).
get_or_create_profile_id(profiles, keys) ==
  IF keys = <<>> THEN [profiles |-> profiles, id |-> 0]
  ELSE update_or_insert_profile(profiles, sorted_keys(keys),
         md5(sorted_keys(keys)),
         find_profile(profiles, md5(sorted_keys(keys))))

\* Table contacts without the constraint unique_phone_number
UniqueViolation_never(rows, df) == FALSE

\* The constraint unique_phone_number of table contacts: a non-null phone
\* number of the batch is already stored or repeated in the batch (SQL
\* NULLs never collide).
UniqueViolation(rows, df) ==
  \E i \in 1..Len(df) :
    /\ ~isna(df[i].phone_number)
    /\ \/ \E j \in 1..Len(rows) : rows[j].phone_number = df[i].phone_number
       \/ \E j \in 1..(i - 1) : df[j].phone_number = df[i].phone_number

\* company_name TEXT NOT NULL of table contacts: a row of the batch has no
\* company_name
NotNullViolation(df) == \E i \in 1..Len(df) : isna(df[i].company_name)

\* df.to_sql(..., if_exists="append"): the rows of the batch with their
\* profile_id, appended in one transaction
to_sql(rows, df, id) ==
  rows \o [i \in 1..Len(df) |->
            [company_name |-> df[i].company_name,
             url          |-> df[i].url,
             phone_number |-> df[i].phone_number,
             is_b2b       |-> df[i].is_b2b,
             additional_info |-> df[i].additional_info,
             profile_id   |-> id]]

\* load_to_db after get_or_create_profile_id returned r: to_sql raises on a
\* constraint violation, or when the database fails (db = "insert_fails");
\* then no row of the batch is stored, and the profile change stays
\* committed.
load_with_profile(rows, df, r, db_outcome) ==
  IF \/ db_outcome = "insert_fails"
     \/ UniqueViolation(rows, df)
     \/ NotNullViolation(df)
  THEN [contacts |-> rows, profiles |-> r.profiles, raised |-> TRUE,
        profile_id |-> r.id,
        calls |-> <<"get_or_create_profile_id", "to_sql">>]
  ELSE [contacts |-> to_sql(rows, df, r.id), profiles |-> r.profiles,
        raised |-> FALSE, profile_id |-> r.id,
        calls |-> <<"get_or_create_profile_id", "to_sql">>]

\* load_to_db(df, "contacts", engine, json_keys): the two tables afterwards,
\* whether it raised, the profile id it got and the calls it made.  An empty frame returns at once.  db_outcome
\* "profile_fails": get_or_create_profile_id raises before its commit.
load_to_db(rows, profiles, df, keys, db_outcome) ==
  IF df = <<>>
  THEN [contacts |-> rows, profiles |-> profiles, raised |-> FALSE,
        profile_id |-> 0, calls |-> <<>>]
  ELSE IF db_outcome = "profile_fails"
  THEN [contacts |-> rows, profiles |-> profiles, raised |-> TRUE,
        profile_id |-> 0, calls |-> <<"get_or_create_profile_id">>]
  ELSE load_with_profile(rows, df, get_or_create_profile_id(profiles, keys),
                         db_outcome)

\* --------------------------------------------------- main(): the for loop
\* The calls every iteration makes that is not skipped, before the branch on
\* dry_run: lines 90, 94, 95 and the deduplication of lines 97-119
IterationCalls ==
  <<"extract_data", "apply_transformations", "clean_data", "deduplicate">>

\* The tail of an iteration counting the rows clean_data kept, before the
\* deduplication
CountFile_before_dedup ==
  /\ total_contacts_added' = total_contacts_added + Len(cleaned'.df)
  /\ processed_files' = Append(processed_files, CurrentFile.name)

\* The tail of an iteration that was not cut short by `continue`
CountFile ==
  /\ total_contacts_added' = total_contacts_added + Len(cleaned_df')
  /\ processed_files' = Append(processed_files, CurrentFile.name)

\* The live branch without lines 139-140: the index is left as it was.
LoadBlock_index_not_extended(r) ==
  /\ contacts' = r.contacts
  /\ contact_profiles' = r.profiles
  /\ profile_id' = r.profile_id
  /\ stages' = IterationCalls \o r.calls
  /\ last_load' = [file |-> file_idx,
                   result |-> IF r.raised THEN "raised" ELSE "ok"]
  /\ pc' = "loop"
  /\ IF r.raised
     THEN /\ pipeline_status' = "failed"
          /\ UNCHANGED <<total_contacts_added, processed_files, index>>
     ELSE /\ CountFile
          /\ UNCHANGED <<pipeline_status, index>>

\* The live branch with the status following the latest load: a success
\* writes "completed".
LoadBlock_status_of_latest(r) ==
  /\ contacts' = r.contacts
  /\ contact_profiles' = r.profiles
  /\ profile_id' = r.profile_id
  /\ stages' = IterationCalls \o r.calls
  /\ last_load' = [file |-> file_idx,
                   result |-> IF r.raised THEN "raised" ELSE "ok"]
  /\ pc' = "loop"
  /\ IF r.raised
     THEN /\ pipeline_status' = "failed"
          /\ UNCHANGED <<total_contacts_added, processed_files, index>>
     ELSE /\ existing_names' = existing_names \o
               [i \in 1..Len(cleaned_df') |-> lower(cleaned_df'[i].company_name)]
          /\ existing_phones' = existing_phones \o
               [i \in 1..Len(cleaned_df') |-> cleaned_df'[i].phone_number]
          /\ CountFile
          /\ pipeline_status' = "completed"

\* The live branch without `continue`: the exception leaves the loop.
LoadBlock_abort(r) ==
  /\ contacts' = r.contacts
  /\ contact_profiles' = r.profiles
  /\ profile_id' = r.profile_id
  /\ stages' = IterationCalls \o r.calls
  /\ last_load' = [file |-> file_idx,
                   result |-> IF r.raised THEN "raised" ELSE "ok"]
  /\ IF r.raised
     THEN /\ pipeline_status' = "failed"
          /\ pc' = "finally"
          /\ UNCHANGED <<total_contacts_added, processed_files, index>>
     ELSE /\ existing_names' = existing_names \o
               [i \in 1..Len(cleaned_df') |-> lower(cleaned_df'[i].company_name)]
          /\ existing_phones' = existing_phones \o
               [i \in 1..Len(cleaned_df') |-> cleaned_df'[i].phone_number]
          /\ CountFile
          /\ pc' = "loop"
          /\ UNCHANGED pipeline_status

\* The live branch with lines 139-140 after the try block: the index is
\* extended with the batch whether or not load_to_db raised.
LoadBlock_index_on_failure(r) ==
  /\ contacts' = r.contacts
  /\ contact_profiles' = r.profiles
  /\ profile_id' = r.profile_id
  /\ stages' = IterationCalls \o r.calls
  /\ last_load' = [file |-> file_idx,
                   result |-> IF r.raised THEN "raised" ELSE "ok"]
  /\ pc' = "loop"
  /\ existing_names' = existing_names \o
       [i \in 1..Len(cleaned_df') |->
          lower(astype_str(cleaned_df'[i].company_name))]
  /\ existing_phones' = existing_phones \o
       [i \in 1..Len(cleaned_df') |-> cleaned_df'[i].phone_number]
  /\ IF r.raised
     THEN /\ pipeline_status' = "failed"
          /\ UNCHANGED <<total_contacts_added, processed_files>>
     ELSE /\ CountFile
          /\ UNCHANGED pipeline_status

\* The live branch of an iteration, given what load_to_db did (r): on
\* success the index is extended with the batch and the file is counted; on
\* an exception the run is marked failed and `continue` goes to the next
\* file, which is not counted.
LoadBlock(r) ==
  /\ contacts' = r.contacts
  /\ contact_profiles' = r.profiles
  /\ profile_id' = r.profile_id
  /\ stages' = IterationCalls \o r.calls
  /\ last_load' = [file |-> file_idx,
                   result |-> IF r.raised THEN "raised" ELSE "ok"]
  /\ pc' = "loop"
  /\ IF r.raised
     THEN /\ pipeline_status' = "failed"
          /\ UNCHANGED <<total_contacts_added, processed_files, index>>
     ELSE /\ existing_names' = existing_names \o
               [i \in 1..Len(cleaned_df') |-> lower(cleaned_df'[i].company_name)]
          /\ existing_phones' = existing_phones \o
               [i \in 1..Len(cleaned_df') |-> cleaned_df'[i].phone_number]
          /\ CountFile
          /\ UNCHANGED pipeline_status

\* One iteration of the for loop: extract_data, apply_transformations,
\* clean_data, the phone filter, the fuzzy loop, and then the dry-run report
\* or load_to_db with what follows it.  An empty frame from extract_data
\* skips the file.  db_outcome says how the database behaves in load_to_db.
ProcessFile(db_outcome) ==
  /\ pc = "loop"
  /\ file_idx <= Len(files_to_process)
  /\ file_idx' = file_idx + 1
  /\ IF CurrentFile.rows = <<>>
     THEN /\ pc' = "loop"
          /\ UNCHANGED <<contacts, contact_profiles, audit, index, batch>>
     ELSE /\ final_df' = Transformed[files_to_process[file_idx]].df
          /\ connections' = connections
          /\ json_keys' = Transformed[files_to_process[file_idx]].json_keys
          /\ cleaned' = Cleaned[files_to_process[file_idx]]
          /\ \E d \in {deduplicate(cleaned'.df, existing_phones, existing_names,
                                   enable_fuzzy_matching, company_name_threshold)} :
               /\ after_phone' = d.after_phone
               /\ cleaned_df' = d.accepted
               /\ potential_duplicates_to_review' = d.review
          /\ IF dry_run
             THEN /\ CountFile
                  /\ last_load' = [file |-> file_idx, result |-> "none"]
                  /\ profile_id' = 0
                  /\ stages' = IterationCalls
                  /\ pc' = "loop"
                  /\ UNCHANGED <<contacts, contact_profiles, pipeline_status, index>>
             ELSE \E r \in {load_to_db(contacts, contact_profiles, cleaned_df',
                                       json_keys', db_outcome)} : LoadBlock(r)
          /\ UNCHANGED run_id
  /\ UNCHANGED <<etl_runs, runs, listed, config, files_to_process>>

\* `except Exception` of the main try: an error raised in an iteration
\* outside the load block (reading the configuration, transforming,
\* cleaning, writing a sink) ends the loop and marks the run failed.
UnexpectedError ==
  /\ pc = "loop"
  /\ file_idx <= Len(files_to_process)
  /\ pipeline_status' = "failed"
  /\ pc' = "finally"
  /\ UNCHANGED <<db, runs, listed, config, run_id, total_contacts_added,
                 processed_files, index, loop, batch>>

\* ----------------------------------------------------- main(): run end
\* The final UPDATE setting the status only
Finalize_status_only(ok) ==
  /\ \/ pc = "finally"
     \/ pc = "loop" /\ file_idx > Len(files_to_process)
  /\ IF ~dry_run /\ run_id # 0 /\ ok
     THEN etl_runs' = [etl_runs EXCEPT ![run_id].status = pipeline_status]
     ELSE UNCHANGED etl_runs
  /\ pc' = "done"
  /\ NoLocals
  /\ UNCHANGED <<contacts, contact_profiles, runs, listed>>

\* `finally`, reached when the loop is exhausted or left by an error: in
\* live mode with a run id, UPDATE etl_runs ... WHERE id = run_id and commit;
\* a failure of either (ok = FALSE) is caught and logged.  Then main returns.
Finalize(ok) ==
  /\ \/ pc = "finally"
     \/ pc = "loop" /\ file_idx > Len(files_to_process)
  /\ IF ~dry_run /\ run_id # 0 /\ ok
     THEN etl_runs' = [etl_runs EXCEPT ![run_id] =
                         [status |-> pipeline_status,
                          files_processed |-> processed_files,
                          contacts_added |-> total_contacts_added,
                          finished_at |-> <<"utcnow">>]]
     ELSE UNCHANGED etl_runs
  /\ pc' = "done"
  /\ NoLocals
  /\ UNCHANGED <<contacts, contact_profiles, runs, listed>>

\* A dry run issues no statement, so nothing of the database can fail in it
DbOutcomes(dr) == IF dr THEN {TRUE} ELSE BOOLEAN

Next ==
  \/ \E dr \in BOOLEAN : Begin(dr, TRUE, 80, "unset", TRUE, TRUE, TRUE, <<>>)
  \/ Begin(FALSE, TRUE, 80, "down", TRUE, TRUE, TRUE, <<>>)
  \/ \E dr \in BOOLEAN, fz \in BOOLEAN, th \in Thresholds :
       \E audit_ok \in DbOutcomes(dr), read_ok \in DbOutcomes(dr) :
         Begin(dr, fz, th, "ok", audit_ok, read_ok, FALSE, <<>>)
  \/ \E dr \in BOOLEAN, fz \in BOOLEAN, th \in Thresholds,
        files \in FileLists(MaxListed - listed) :
       \E audit_ok \in DbOutcomes(dr), read_ok \in DbOutcomes(dr) :
         Begin(dr, fz, th, "ok", audit_ok, read_ok, TRUE, files)
  \/ \E db_outcome \in {"ok", "profile_fails", "insert_fails"} :
       ProcessFile(db_outcome)
  \/ UnexpectedError
  \/ \E ok \in BOOLEAN : Finalize(ok)

Spec == Init /\ [][Next]_vars

\* ------------------------------ get_or_create_profile_id on its own
\* The key lists a caller may pass: any list of up to MaxKeys names, in any
\* order, names repeated or not (the parameter is a List[str])
KeyNames == {"Company", "Phone"}

KeyLists == UNION {[1..k -> KeyNames] : k \in 0..MaxKeys}

RECURSIVE TotalCount(_)
TotalCount(profiles) ==
  IF profiles = <<>> THEN 0
  ELSE Head(profiles).contact_count + TotalCount(Tail(profiles))

\* One call get_or_create_profile_id(keys, engine) on the profile table as
\* it stands; json_keys holds the argument, profile_id the value returned.
Assign(keys) ==
  /\ pc = "idle"
  /\ TotalCount(contact_profiles) < MaxAssigns
  /\ json_keys' = keys
  /\ \E r \in {get_or_create_profile_id(contact_profiles, keys)} :
       /\ contact_profiles' = r.profiles
       /\ profile_id' = r.id
  /\ UNCHANGED <<contacts, etl_runs, pc, runs, listed, config, audit, index,
                 loop, final_df, cleaned, after_phone, cleaned_df,
                 potential_duplicates_to_review, stages, last_load,
                 connections>>

NextAssign == \E keys \in KeyLists : Assign(keys)

SpecAssign == Init /\ [][NextAssign]_vars

\* ------------------- get_or_create_profile_id called by several callers
\* Every caller has its own connection and so its own transaction; a step
\* is one statement (with the commit that follows it in the code).  The
\* hash is computed before the connection is opened and touches no shared
\* state, so it is part of the step of the SELECT.

\* profile_hash TEXT UNIQUE, never
ProfileHashTaken_never(profiles, profile_hash) == FALSE

\* profile_hash TEXT UNIQUE: an INSERT of a hash that a committed row holds
\* raises.  (An INSERT that meets an uncommitted row of the same hash waits
\* for that transaction; here the INSERT and its commit are one step, so it
\* meets committed rows only.)
ProfileHashTaken(profiles, profile_hash) ==
  find_profile(profiles, profile_hash) # 0

\* Lines 39-55 for caller c: return None for no keys, else compute the hash
\* and SELECT the profile's id; found is what fetchone() gave (0: no row).
Select(c, keys) ==
  /\ pc = "idle"
  /\ connections[c].at # "selected"
  /\ TotalCount(contact_profiles)
       + Cardinality({k \in Callers : connections[k].at = "selected"})
       < MaxAssigns
  /\ connections' =
       [connections EXCEPT ![c] =
          IF keys = <<>>
          THEN [at |-> "returned", sorted_keys |-> <<>>, found |-> 0,
                returned |-> 0]
          ELSE [at |-> "selected", sorted_keys |-> sorted_keys(keys),
                found |-> find_profile(contact_profiles,
                                       md5(sorted_keys(keys))),
                returned |-> 0]]
  /\ UNCHANGED <<db, pc, runs, listed, config, audit, index, loop,
                 final_df, cleaned, after_phone, cleaned_df,
                 potential_duplicates_to_review, json_keys, profile_id,
                 stages, last_load>>

\* Lines 57-81 for caller c, on what its SELECT found: UPDATE the count and
\* commit, or INSERT ... RETURNING id and commit.  The INSERT raises when
\* the hash has been stored meanwhile; the exception leaves the function
\* and the `with` closes the connection, nothing committed.
Write(c) ==
  /\ pc = "idle"
  /\ connections[c].at = "selected"
  /\ IF /\ connections[c].found = 0
        /\ ProfileHashTaken(contact_profiles,
                            md5(connections[c].sorted_keys))
     THEN /\ connections' = [connections EXCEPT ![c].at = "raised"]
          /\ UNCHANGED contact_profiles
     ELSE \E r \in {update_or_insert_profile(contact_profiles,
                       connections[c].sorted_keys,
                       md5(connections[c].sorted_keys),
                       connections[c].found)} :
            /\ contact_profiles' = r.profiles
            /\ connections' = [connections EXCEPT ![c].at = "returned",
                                                  ![c].returned = r.id]
  /\ UNCHANGED <<contacts, etl_runs, pc, runs, listed, config, audit, index,
                 loop, final_df, cleaned, after_phone, cleaned_df,
                 potential_duplicates_to_review, json_keys, profile_id,
                 stages, last_load>>

NextRace ==
  \/ \E c \in Callers, keys \in KeyLists : Select(c, keys)
  \/ \E c \in Callers : Write(c)

SpecRace == Init /\ [][NextRace]_vars

\* ================================================================ claims
\* A step that is one iteration of the for loop, not cut short by `continue`
Iterated ==
  /\ pc = "loop"
  /\ pc' = "loop"
  /\ file_idx' = file_idx + 1
  /\ CurrentFile.rows # <<>>

\* The non-null phone numbers of a frame, and of a list of phone numbers
Phones(df) == {df[i].phone_number : i \in 1..Len(df)} \ {NULL}

Known(phones) == {phones[i] : i \in 1..Len(phones)} \ {NULL}

\* C1: in a live run, once the accepted batch of a file is persisted, each of
\* its non-null phone numbers is in the known phones; the known phones of a
\* run never lose a member; and no record that survives the phone filter of a
\* file, nor any accepted record, carries a non-null phone number that was
\* known when the file was taken up.  Together: a phone number persisted from
\* file i is rejected in every later file j of the run.
C1_CrossFilePhoneDedup ==
  [][/\ (Iterated /\ ~dry_run /\ last_load'.result = "ok")
        => Phones(cleaned_df') \subseteq Known(existing_phones')
     /\ (pc = "loop" /\ pc' = "loop")
        => Known(existing_phones) \subseteq Known(existing_phones')
     /\ Iterated
        => /\ Phones(after_phone') \cap Known(existing_phones) = {}
           /\ Phones(cleaned_df') \cap Known(existing_phones) = {}]_vars

\* C1: the first run, live, has taken up its second file after persisting the
\* first, and the phone filter rejected a record of the second file.
C1_Witness ==
  /\ ~dry_run
  /\ runs = 1
  /\ pc = "loop"
  /\ file_idx = 3
  /\ Len(processed_files) >= 1
  /\ Phones(cleaned.df) \cap Phones(contacts) # {}
  /\ Len(after_phone) < Len(cleaned.df)

\* C2: for every file, in either mode and with fuzzy matching on or off, no
\* accepted record has a phone number equal to a member of the known phones
\* as they stood when the file was taken up.
C2_ExactPhoneFilter ==
  [][Iterated
     => \A i \in 1..Len(cleaned_df') :
          \A k \in 1..Len(existing_phones) :
            existing_phones[k] # cleaned_df'[i].phone_number]_vars

\* C2: the first file of a second, live run lost a record with a phone number
\* to the phone filter: the number was known from the stored contacts.
C2_Witness ==
  /\ ~dry_run
  /\ runs = 2
  /\ pc = "loop"
  /\ file_idx = 2
  /\ Phones(cleaned.df) \ Phones(after_phone) # {}
  /\ (Phones(cleaned.df) \ Phones(after_phone)) \subseteq Phones(contacts)

\* C3: no step of a dry run creates or changes a row of contacts,
\* contact_profiles or etl_runs, and no iteration of its loop changes the
\* known phones or the known names.
C3_DryRunFrame ==
  [][(dry_run \/ dry_run')
     => /\ UNCHANGED <<contacts, contact_profiles, etl_runs>>
        /\ (pc = "loop" /\ pc' = "loop")
           => UNCHANGED <<existing_names, existing_phones>>]_vars

\* C3: a dry run has gone through two files with records to accept, the
\* second repeating a phone number of the first, and nothing is stored.
C3_Witness ==
  /\ dry_run
  /\ pc = "loop"
  /\ file_idx = 3
  /\ Len(processed_files) = 2
  /\ cleaned_df # <<>>
  /\ total_contacts_added > Len(cleaned_df)
  /\ Phones(cleaned_df) \cap Phones(Cleaned[files_to_process[1]].df) # {}
  /\ contacts = <<>>
  /\ contact_profiles = <<>>
  /\ etl_runs = <<>>
  /\ existing_phones = <<>>

\* The step in which main() goes through `finally` and returns
RunEnds == pc \in {"loop", "finally"} /\ pc' = "done"

\* The audit record of the current run as the final UPDATE writes it
Finalized ==
  [status |-> pipeline_status,
   files_processed |-> processed_files,
   contacts_added |-> total_contacts_added,
   finished_at |-> <<"utcnow">>]

\* C4 as stated: at the end of every live run the run has an audit record
\* and that record carries the final status, the processed files, the
\* contacts added and the finish time; it is no longer "running".
C4_AlwaysFinalized ==
  [][(RunEnds /\ ~dry_run)
     => /\ run_id # 0
        /\ etl_runs'[run_id] = Finalized
        /\ etl_runs'[run_id].status # "running"]_vars

\* C4, amended: the audit record of a live run is written at most once after
\* its creation, by the step that ends the run, whether the run completed, a
\* load failed or an error left the loop; that step writes the final status,
\* the processed files, the contacts added and the finish time together, or,
\* when the UPDATE fails, nothing; no other record is touched, and a record
\* that is no longer "running" never changes again.
C4_FinalizedAtMostOnce ==
  [][/\ (RunEnds /\ ~dry_run /\ run_id # 0)
        => \/ etl_runs' = [etl_runs EXCEPT ![run_id] = Finalized]
           \/ etl_runs' = etl_runs
     /\ (RunEnds /\ (dry_run \/ run_id = 0)) => etl_runs' = etl_runs
     /\ ~RunEnds
        => \A i \in 1..Len(etl_runs) : etl_runs'[i] = etl_runs[i]
     /\ \A i \in 1..Len(etl_runs) :
          etl_runs[i].status # "running" => etl_runs'[i] = etl_runs[i]]_vars

\* C4: a live run that persisted a file and then failed has ended, and its
\* record is finalized.
C4_Witness ==
  /\ pc = "done"
  /\ \E i \in 1..Len(etl_runs) :
       /\ etl_runs[i].status = "failed"
       /\ etl_runs[i].files_processed # <<>>
       /\ etl_runs[i].finished_at # NULL
       /\ contacts # <<>>

\* C5: inside a run the status starts "completed", becomes "failed" exactly
\* when a load raises or an error leaves the loop (or the listing), and once
\* "failed" stays so; the end of the run writes that status to a record that
\* was "running", and no other step changes the status of a record.
C5_StatusSemantics ==
  [][/\ (pc \notin {"loop", "finally"} /\ pc' = "loop")
        => pipeline_status' = "completed"
     /\ (pc = "loop" /\ pc' = "loop")
        => (pipeline_status' = "failed"
              <=> \/ pipeline_status = "failed"
                  \/ /\ ~dry_run
                     /\ last_load'.file = file_idx
                     /\ last_load'.result = "raised")
     /\ pc' = "finally" => pipeline_status' = "failed"
     /\ pc' \in {"loop", "finally"}
        => pipeline_status' \in {"completed", "failed"}
     /\ \A i \in 1..Len(etl_runs) :
          etl_runs'[i].status # etl_runs[i].status
            => /\ RunEnds
               /\ i = run_id
               /\ etl_runs[i].status = "running"
               /\ etl_runs'[i].status = pipeline_status]_vars

\* C5: two live runs have ended, the first "completed" with a file
\* persisted, the second "failed".
C5_Witness ==
  /\ pc = "done"
  /\ Len(etl_runs) = 2
  /\ etl_runs[1].status = "completed"
  /\ etl_runs[1].files_processed # <<>>
  /\ etl_runs[2].status = "failed"

\* A step in which load_to_db was called for the current file and raised
LoadRaised ==
  /\ pc = "loop"
  /\ ~dry_run
  /\ last_load'.file = file_idx
  /\ last_load'.result = "raised"

\* C6: when load_to_db raises for a file of a live run, the run is marked
\* failed, the loop goes on with the next file of the same listing, and the
\* contacts stored before are all still stored; no step at all removes or
\* changes a stored contact.
C6_FailureContinues ==
  [][/\ LoadRaised
        => /\ pipeline_status' = "failed"
           /\ pc' = "loop"
           /\ file_idx' = file_idx + 1
           /\ files_to_process' = files_to_process
           /\ contacts' = contacts
     /\ Len(contacts') >= Len(contacts)
     /\ SubSeq(contacts', 1, Len(contacts)) = contacts]_vars

\* C6: the second file of a live run failed to load after the first was
\* persisted; the loop stands at the next position, the first file's
\* contacts are stored.
C6_Witness ==
  /\ pc = "loop"
  /\ ~dry_run
  /\ file_idx = 3
  /\ last_load = [file |-> 2, result |-> "raised"]
  /\ processed_files = <<FilePool[files_to_process[1]].name>>
  /\ pipeline_status = "failed"
  /\ Len(contacts) = total_contacts_added
  /\ contacts # <<>>

\* A step in which load_to_db was called for the current file with a
\* batch that is not empty
LoadAttempted ==
  /\ pc = "loop"
  /\ ~dry_run
  /\ last_load'.file = file_idx
  /\ cleaned_df' # <<>>

\* C7 as stated: an attempt to load a file either stores every record of the
\* accepted batch and commits the profile creation or count update, or
\* stores no contact and leaves the profile table as it was.
C7_AllOrNothing ==
  [][LoadAttempted
     => \/ /\ \E p \in 1..Len(contact_profiles') :
                contacts' = to_sql(contacts, cleaned_df', p)
           /\ contact_profiles' # contact_profiles
        \/ /\ contacts' = contacts
           /\ contact_profiles' = contact_profiles]_vars

\* The number of stored contacts that reference profile p
ContactsOf(p) == Cardinality({i \in 1..Len(contacts) : contacts[i].profile_id = p})

\* C8 as stated: in every reachable state each profile's contact_count is
\* the number of stored contacts whose profile_id references it.
C8_CountIsContacts ==
  \A p \in 1..Len(contact_profiles) :
    contact_profiles[p].contact_count = ContactsOf(p)

\* C9 as stated: every cleaned record whose phone number is null, or is not
\* among the known phones, survives the phone filter.
C9_OnlyKnownPhonesRemoved ==
  [][Iterated
     => \A i \in 1..Len(cleaned'.df) :
          (\/ isna(cleaned'.df[i].phone_number)
           \/ cleaned'.df[i].phone_number \notin Known(existing_phones))
          => \E j \in 1..Len(after_phone') : after_phone'[j] = cleaned'.df[i]]_vars

\* Some known name scores at least the threshold against the record's
\* lowercased name, by the token-sorted similarity
BestScoreReaches(row, names, threshold) ==
  \E k \in 1..Len(names) :
    ScoreGE(token_sort_ratio(lower(row.company_name), names[k]), threshold)

\* C10: with fuzzy matching enabled, a record that survived the phone filter
\* and has a non-empty company_name is in the review list, and not accepted,
\* exactly when some known name scores at least the threshold against it;
\* otherwise it is accepted and not in the review list.
C10_FuzzyDecision ==
  [][(Iterated /\ enable_fuzzy_matching)
     => \A i \in 1..Len(after_phone') :
          (/\ ~isna(after_phone'[i].company_name)
           /\ after_phone'[i].company_name # <<>>)
          => /\ (\E j \in 1..Len(potential_duplicates_to_review') :
                   potential_duplicates_to_review'[j] = after_phone'[i])
                <=> BestScoreReaches(after_phone'[i], existing_names,
                                     company_name_threshold)
             /\ (\E j \in 1..Len(cleaned_df') :
                   cleaned_df'[j] = after_phone'[i])
                <=> ~BestScoreReaches(after_phone'[i], existing_names,
                                      company_name_threshold)]_vars

\* C10: a file left one record for review whose best score is exactly the
\* threshold and one whose best score is above it, against names of which
\* another scores below the threshold.
C10_Witness ==
  /\ enable_fuzzy_matching
  /\ pc = "loop"
  /\ Len(potential_duplicates_to_review) = 2
  /\ \E i \in 1..Len(potential_duplicates_to_review) :
       \E k \in 1..Len(existing_names) :
         /\ token_sort_ratio(lower(potential_duplicates_to_review[i].company_name),
                             existing_names[k]).num
              = company_name_threshold
                * token_sort_ratio(lower(potential_duplicates_to_review[i].company_name),
                                   existing_names[k]).den
         /\ \A m \in 1..Len(existing_names) :
              ~ScoreGT(token_sort_ratio(lower(potential_duplicates_to_review[i].company_name),
                                        existing_names[m]),
                       token_sort_ratio(lower(potential_duplicates_to_review[i].company_name),
                                        existing_names[k]))

\* C11 as stated: every entry of the review list carries, with the flagged
\* record, the known name it matched and the score of the match.
C11_ReviewRecordsMatch ==
  \A i \in 1..Len(potential_duplicates_to_review) :
    {"match_name", "score"} \subseteq DOMAIN potential_duplicates_to_review[i]

\* C12 as stated: the cleaned batch holds no two records with the same
\* non-null phone number, and every record in the dropped-duplicates sink has
\* a non-null phone number that a record kept in the cleaned batch carries
\* (records without a phone number are not collapsed).
C12_OnlyRepeatedPhonesDropped ==
  /\ \A i \in 1..Len(cleaned.df) : \A j \in 1..Len(cleaned.df) :
       (/\ i # j
        /\ ~isna(cleaned.df[i].phone_number))
       => cleaned.df[i].phone_number # cleaned.df[j].phone_number
  /\ \A i \in 1..Len(cleaned.duplicates) :
       /\ ~isna(cleaned.duplicates[i].phone_number)
       /\ cleaned.duplicates[i].phone_number \in Phones(cleaned.df)

\* The step in which a run reaches its for loop
RunStarts == pc \notin {"loop", "finally"} /\ pc' = "loop"

\* The index holds every stored contact: its phone number and its lowercased
\* name (primed: the index as the step leaves it)
IndexSeeded ==
  /\ existing_phones' = [i \in 1..Len(contacts) |-> contacts[i].phone_number]
  /\ existing_names' =
       [i \in 1..Len(contacts) |-> lower(contacts[i].company_name)]

\* C13 as stated: when a run reaches its first file the index holds the
\* phone numbers and the lowercased names of all stored contacts; the one
\* exception granted is the live run whose read of the stored contacts
\* failed, which goes on with an empty index.
C13_IndexSeededAtRunStart ==
  [][RunStarts
     => \/ IndexSeeded
        \/ /\ ~dry_run'
           /\ existing_phones' = <<>>
           /\ existing_names' = <<>>]_vars

\* The set of names in a key list
KeySet(keys) == {keys[i] : i \in 1..Len(keys)}

ProfileOfKeySet(profiles, keys) ==
  IF \E p \in 1..Len(profiles) : KeySet(profiles[p].json_keys) = KeySet(keys)
  THEN CHOOSE p \in 1..Len(profiles) :
         KeySet(profiles[p].json_keys) = KeySet(keys)
  ELSE 0

C16_EmptyKeysAssignNothing ==
  [][json_keys' = <<>> =>
       /\ profile_id' = 0
       /\ contact_profiles' = contact_profiles]_vars

\* reached: an empty call answered with no id on a table that holds profiles
C16_Witness ==
  /\ json_keys = <<>>
  /\ profile_id = 0
  /\ contact_profiles # <<>>

\* A company_name that is null or blank
Blank(name) == isna(name) \/ \A i \in 1..Len(name) : IsSpace(name[i])

NoBlankName(df) == \A i \in 1..Len(df) : ~Blank(df[i].company_name)

\* C17 as stated: the records in the invalid sink are those left without a
\* name, and no record of the cleaned batch, of the batch after the phone
\* filter, of the accepted set, of the review list or of the stored contacts
\* has a null or blank company_name.
C17_BlankNamesQuarantined ==
  /\ \A i \in 1..Len(cleaned.invalid) : Blank(cleaned.invalid[i].company_name)
  /\ NoBlankName(cleaned.df)
  /\ NoBlankName(cleaned.duplicates)
  /\ NoBlankName(after_phone)
  /\ NoBlankName(cleaned_df)
  /\ NoBlankName(potential_duplicates_to_review)
  /\ NoBlankName(contacts)

\* C18: a run that finds no connection target halts at once, in either mode:
\* the step that halts stores no contact, no profile and no audit record,
\* lists and processes no file and leaves no batch behind, and from the
\* halted state nothing happens but the start of another run.
C18_HaltsBeforeAnything ==
  [][/\ pc' = "halted" =>
          /\ runs' = runs + 1
          /\ UNCHANGED <<contacts, contact_profiles, etl_runs, listed>>
          /\ run_id' = 0
          /\ files_to_process' = <<>>
          /\ processed_files' = <<>>
          /\ total_contacts_added' = 0
          /\ cleaned' = EmptyClean
          /\ cleaned_df' = <<>>
          /\ stages' = <<>>
     /\ pc = "halted" => runs' = runs + 1]_vars

\* reached: a run halted although contacts and an audit record of an earlier
\* run are stored
C18_Witness ==
  /\ pc = "halted"
  /\ runs = MaxRuns
  /\ contacts # <<>>
  /\ etl_runs # <<>>

\* A live run is under way whose read of the stored contacts failed: its
\* index holds fewer entries than there are contacts (a read that succeeds
\* gives one entry per contact, and every load adds as many entries as rows)
ReadFailed ==
  /\ ~dry_run
  /\ pc = "loop"
  /\ Len(existing_phones) < Len(contacts)

\* C19: a live run whose read of the stored contacts fails starts its loop
\* with an empty index and status "completed"; while files remain, the
\* run's next step processes the next file (or is an error raised elsewhere
\* in the iteration); and the run is marked failed
\* only when a load raises or such an error is raised.
C19_ReadFailureNotFatal ==
  [][/\ (RunStarts /\ ~dry_run') =>
          /\ \/ IndexSeeded
             \/ existing_phones' = <<>> /\ existing_names' = <<>>
          /\ pipeline_status' = "completed"
          /\ file_idx' = 1
     /\ (ReadFailed /\ file_idx <= Len(files_to_process)) =>
          \/ file_idx' = file_idx + 1 /\ pc' = "loop"
          \/ pc' = "finally"
     /\ (ReadFailed /\ pipeline_status = "completed"
           /\ pipeline_status' = "failed") =>
          \/ last_load' = [file |-> file_idx, result |-> "raised"]
          \/ pc' = "finally"]_vars

\* reached: a live run that started with an empty index although contacts
\* are stored has processed and loaded every file listed and is not marked
\* failed
C19_Witness ==
  /\ ReadFailed
  /\ files_to_process # <<>>
  /\ file_idx > Len(files_to_process)
  /\ Len(processed_files) = Len(files_to_process)
  /\ last_load.result = "ok"
  /\ pipeline_status = "completed"

\* The position of the first call of f in a sequence of calls, 0 when f was
\* not called
CallAt(calls, f) ==
  IF \E i \in 1..Len(calls) : calls[i] = f
  THEN CHOOSE i \in 1..Len(calls) :
         calls[i] = f /\ \A j \in 1..(i - 1) : calls[j] # f
  ELSE 0

\* The names of the files of the listing that are not empty, up to place n
RECURSIVE NamesListed(_, _)
NamesListed(files, n) ==
  IF n = 0 THEN <<>>
  ELSE NamesListed(files, n - 1) \o
         (IF FilePool[files[n]].rows = <<>> THEN <<>>
          ELSE <<FilePool[files[n]].name>>)

\* C20 as stated: the files are processed in listing order, and in every
\* iteration that processed a file the calls come in the order normalize
\* (apply_transformations), clean (clean_data), assign profile
\* (get_or_create_profile_id), deduplicate.
C20_StageOrder ==
  /\ (pc = "loop" /\ pipeline_status = "completed") =>
       processed_files = NamesListed(files_to_process, file_idx - 1)
  /\ stages # <<>> =>
       /\ 0 < CallAt(stages, "apply_transformations")
       /\ CallAt(stages, "apply_transformations") < CallAt(stages, "clean_data")
       /\ CallAt(stages, "clean_data")
            < CallAt(stages, "get_or_create_profile_id")
       /\ CallAt(stages, "get_or_create_profile_id")
            < CallAt(stages, "deduplicate")

\* A mapping given as a list of <<key, value>> pairs
Mapping(pairs) == {pairs[j] : j \in 1..Len(pairs)}

\* The raw row i of a file as a mapping from its column names to its values
RawRow(file, i) ==
  {<<<<file.columns[j]>>, file.rows[i][file.columns[j]]>> :
     j \in 1..Len(file.columns)}

\* C21: the frame apply_transformations returns has one record per raw row
\* of the file, in order, and the additional_info of each deserializes to the
\* mapping of that raw row: every column of the file with the value the file
\* has there (null for a missing value), nothing else.
C21_AdditionalInfoRoundTrips ==
  [][Iterated
     => /\ Len(final_df') = Len(CurrentFile.rows)
        /\ \A i \in 1..Len(final_df') :
             Mapping(json_loads(final_df'[i].additional_info))
               = RawRow(CurrentFile, i)]_vars

\* reached: a record whose raw row has a column named like a promoted column,
\* with a value that needs escaping, which promotion replaced by null
C21_Witness ==
  \E i \in 1..Len(final_df) :
    /\ isna(final_df[i].url)
    /\ \E p \in Mapping(json_loads(final_df[i].additional_info)) :
         /\ p[1] = <<"url">>
         /\ ~isna(p[2])
         /\ \E k \in 1..Len(p[2]) : p[2][k] = "DQUOTE"

\* Candidate k of a rule is a column of the file with a non-null value in row
Present(row, columns, options, k) ==
  /\ \E j \in 1..Len(columns) : columns[j] = options[k]
  /\ ~isna(row[options[k]])

\* v is the value of the first candidate present with a non-null value, and
\* null when there is none
FirstPresent(v, row, columns, options) ==
  \/ \E k \in 1..Len(options) :
       /\ Present(row, columns, options, k)
       /\ \A m \in 1..(k - 1) : ~Present(row, columns, options, m)
       /\ v = row[options[k]]
  \/ /\ \A k \in 1..Len(options) : ~Present(row, columns, options, k)
     /\ isna(v)

Acme == <<"A", "c", "m", "e">>

\* C22: in the frame apply_transformations returns, every promoted column of
\* every row holds the value of the rule's first candidate column that the
\* file has with a non-null value in that row, and null when there is none
\* (is_b2b is standardized after it is promoted, and is left to C23);
\* and a row {Company: Acme, Phone: (555) 123-4567} gets company_name Acme
\* and leaves cleaning with phone_number 5551234567.
C22_FirstPresentWins ==
  [][Iterated
     => /\ \A i \in 1..Len(final_df') :
             \A c \in {"company_name", "url", "phone_number"} :
               FirstPresent(final_df'[i][c], CurrentFile.rows[i],
                            CurrentFile.columns, promotion_rules[c])
        /\ \A i \in 1..Len(final_df') :
             RawRow(CurrentFile, i)
               = {<<<<"Company">>, Acme>>,
                  <<<<"Phone">>, <<"(", "5", "5", "5", ")", " ", "1", "2", "3",
                                   "-", "4", "5", "6", "7">>>>}
             => /\ final_df'[i].company_name = Acme
                /\ \E j \in 1..Len(cleaned'.df) :
                     /\ cleaned'.df[j].company_name = Acme
                     /\ cleaned'.df[j].phone_number
                          = <<"5", "5", "5", "1", "2", "3", "4", "5", "6", "7">>]_vars

\* reached: the Acme row is stored with its phone cleaned, and the latest
\* frame has a row where both candidates of company_name have a value and
\* the first was taken, and a row where only the second has a value
C22_Witness ==
  /\ \E j \in 1..Len(contacts) :
       /\ contacts[j].company_name = Acme
       /\ contacts[j].phone_number
            = <<"5", "5", "5", "1", "2", "3", "4", "5", "6", "7">>
  /\ \E i \in 1..Len(final_df) : final_df[i].company_name = <<"E", "f">>
  /\ \E i \in 1..Len(final_df) : final_df[i].company_name = <<"I", "j">>

\* The value the file has for is_b2b in a raw row: that of column B2B, null
\* when the file has no such column
RawB2B(file, i) ==
  IF \E j \in 1..Len(file.columns) : file.columns[j] = "B2B"
  THEN file.rows[i].B2B ELSE NULL

\* The text of a raw value is w in some mix of upper and lower case
SaysAnyCase(v, w) ==
  /\ ~isna(v)
  /\ Len(astype_str(v)) = Len(w)
  /\ \A k \in 1..Len(w) :
       astype_str(v)[k] \in {w[k], UpperChar(w[k])}

SaysTrue(v) ==
  \E w \in {<<"y", "e", "s">>, <<"t", "r", "u", "e">>, <<"1">>} :
    SaysAnyCase(v, w)

SaysFalse(v) ==
  \E w \in {<<"n", "o">>, <<"f", "a", "l", "s", "e">>, <<"0">>} :
    SaysAnyCase(v, w)

\* The records of a frame keep the is_b2b that the normalized record of the
\* same raw row has
KeepsB2B(df, normalized) ==
  \A j \in 1..Len(df) :
    \E i \in 1..Len(normalized) :
      /\ normalized[i].additional_info = df[j].additional_info
      /\ normalized[i].is_b2b = df[j].is_b2b

\* C23: the is_b2b of a normalized record is true when the raw value says
\* yes, true or 1 in any case, false when it says no, false or 0, and
\* unknown otherwise (absent, Unknown, anything else); and the records of the
\* cleaned batch, of the batch after the phone filter, of the accepted set
\* and of the review list carry the value of their normalized record,
\* unknown never turned into false.
C23_TriStateB2B ==
  [][Iterated
     => /\ \A i \in 1..Len(final_df') :
             final_df'[i].is_b2b =
               IF SaysTrue(RawB2B(CurrentFile, i)) THEN pdTrue
               ELSE IF SaysFalse(RawB2B(CurrentFile, i)) THEN pdFalse
               ELSE NULL
        /\ KeepsB2B(cleaned'.df, final_df')
        /\ KeepsB2B(after_phone', final_df')
        /\ KeepsB2B(cleaned_df', final_df')
        /\ KeepsB2B(potential_duplicates_to_review', final_df')]_vars

\* reached: a file gave true, false and unknown (from Unknown and from an
\* absent value), and its accepted set holds a record that is false and one
\* that is unknown
C23_Witness ==
  /\ \E i \in 1..Len(final_df) : final_df[i].is_b2b = pdTrue
  /\ \E i \in 1..Len(cleaned_df) : cleaned_df[i].is_b2b = pdFalse
  /\ \E i \in 1..Len(cleaned_df) : isna(cleaned_df[i].is_b2b)
  /\ \E i \in 1..Len(contacts) : isna(contacts[i].is_b2b)
  /\ \E i \in 1..Len(contacts) : contacts[i].is_b2b = pdFalse

\* The host of a url, read with http:// in front when it names no scheme
HostOf(url) == netloc(with_scheme(url))

\* The first label of a host after a leading www. label is taken off
FirstLabelOfHost(host) ==
  FirstLabel(IF StartsWith(host, <<"w", "w", "w", ".">>)
             THEN SubSeq(host, 5, Len(host)) ELSE host)

\* Some record of the frame stems from the same raw row as r and has name n
HasNamed(df, r, n) ==
  \E j \in 1..Len(df) :
    /\ df[j].additional_info = r.additional_info
    /\ df[j].company_name = n

\* C24 as stated: a normalized record whose company_name is null or blank
\* leaves cleaning named after its url, with the capitalized first label of
\* the host (a leading www. label taken off), when the url has a host; and
\* it is left without a name, in the invalid sink, when the url is missing
\* or has no host.
C24_BackfillFromUrl ==
  [][Iterated
     => \A i \in 1..Len(final_df') :
          Blank(final_df'[i].company_name)
          => IF /\ ~isna(final_df'[i].url)
                /\ FirstLabelOfHost(HostOf(final_df'[i].url)) # <<>>
             THEN \/ HasNamed(cleaned'.df, final_df'[i],
                      capitalize(FirstLabelOfHost(HostOf(final_df'[i].url))))
                  \/ HasNamed(cleaned'.duplicates, final_df'[i],
                      capitalize(FirstLabelOfHost(HostOf(final_df'[i].url))))
             ELSE \E j \in 1..Len(cleaned'.invalid) :
                    /\ cleaned'.invalid[j].additional_info
                         = final_df'[i].additional_info
                    /\ Blank(cleaned'.invalid[j].company_name)]_vars

\* A step of the for loop of a live run in which the current file's batch
\* was handed to load_to_db and load_to_db returned
LoadReturned ==
  /\ pc = "loop"
  /\ ~dry_run
  /\ last_load'.file = file_idx
  /\ last_load'.result = "ok"

\* C25: a live run starts with no file and no contact counted and inserts
\* nothing while starting; every step of its loop raises the count by the
\* number of rows it inserted and lists the current file exactly when its
\* batch went through load_to_db without error (a failed or skipped file
\* adds to neither, a file whose rows were inserted is listed); and the
\* final UPDATE writes that count and that list.
C25_TotalsMatchInserts ==
  [][/\ (pc \notin {"loop", "finally"} /\ pc' \in {"loop", "finally"})
        => /\ total_contacts_added' = 0
           /\ processed_files' = <<>>
           /\ contacts' = contacts
     /\ (pc = "loop" /\ ~dry_run /\ pc' \in {"loop", "finally"})
        => /\ total_contacts_added' - total_contacts_added
                = Len(contacts') - Len(contacts)
           /\ processed_files' =
                IF LoadReturned
                THEN Append(processed_files, CurrentFile.name)
                ELSE processed_files
           /\ contacts' # contacts => LoadReturned
     /\ (RunEnds /\ ~dry_run)
        => /\ contacts' = contacts
           /\ etl_runs' # etl_runs
                => /\ etl_runs'[run_id].contacts_added = total_contacts_added
                   /\ etl_runs'[run_id].files_processed = processed_files]_vars

\* C25: the first run, live, has ended "failed": one file was persisted and
\* counted, a later file's load raised after its profile was committed, and
\* the record counts exactly the contacts stored.
C25_Witness ==
  /\ pc = "done"
  /\ runs = 1
  /\ Len(etl_runs) = 1
  /\ etl_runs[1].status = "failed"
  /\ Len(etl_runs[1].files_processed) = 1
  /\ etl_runs[1].contacts_added = Len(contacts)
  /\ contacts # <<>>
  /\ TotalCount(contact_profiles) = 2

\* Callers c1 and c2 raced on a new hash: both looked for the same key
\* list, both were told that no profile has its hash, and both went on to
\* the INSERT.  (The one that inserted did so after the other's SELECT,
\* since a stored profile is never removed.)
Raced(c1, c2) ==
  /\ c1 # c2
  /\ connections[c1].sorted_keys # <<>>
  /\ connections[c1].sorted_keys = connections[c2].sorted_keys
  /\ connections[c1].found = 0
  /\ connections[c2].found = 0
  /\ connections[c1].at \in {"returned", "raised"}
  /\ connections[c2].at \in {"returned", "raised"}

\* The number of stored profiles with this hash
ProfilesWith(profile_hash) ==
  Cardinality({i \in 1..Len(contact_profiles) :
                 contact_profiles[i].profile_hash = profile_hash})

\* C26 as stated: when two callers raced on a new hash, both having seen no
\* profile and both having attempted the INSERT, two profiles with that
\* hash are stored.
C26_RaceDuplicates ==
  \A c1 \in Callers, c2 \in Callers :
    Raced(c1, c2) => ProfilesWith(md5(connections[c1].sorted_keys)) >= 2

\* C26, amended: two callers can both see no profile for a new hash and
\* both attempt the INSERT, but the hash is unique: exactly one of the two
\* INSERTs is stored and returns its id, the other raises and stores
\* nothing, and at no time do two profiles have the same hash.  A call
\* raises only in that way: it saw no profile and the hash is stored by now.
C26_RaceLoserRaises ==
  /\ \A i \in 1..Len(contact_profiles), j \in 1..Len(contact_profiles) :
       i # j => contact_profiles[i].profile_hash
                  # contact_profiles[j].profile_hash
  /\ \A c1 \in Callers, c2 \in Callers :
       Raced(c1, c2)
       => /\ ProfilesWith(md5(connections[c1].sorted_keys)) = 1
          /\ \/ /\ connections[c1].at = "returned"
                /\ connections[c2].at = "raised"
             \/ /\ connections[c1].at = "raised"
                /\ connections[c2].at = "returned"
          /\ \A c \in {c1, c2} :
               connections[c].at = "returned"
               => contact_profiles[connections[c].returned].profile_hash
                    = md5(connections[c].sorted_keys)
  /\ \A c \in Callers :
       connections[c].at = "raised"
       => /\ connections[c].found = 0
          /\ connections[c].returned = 0
          /\ ProfilesWith(md5(connections[c].sorted_keys)) = 1

\* C26: callers 1 and 2 raced on the hash of <<"Company", "Phone">>, given
\* as lists in different order; caller 2 created the profile with count 1
\* and caller 1's INSERT raised
C26_Witness ==
  /\ Raced(1, 2)
  /\ connections[1].sorted_keys = <<"Company", "Phone">>
  /\ connections[1].at = "raised"
  /\ connections[2].at = "returned"
  /\ connections[2].returned = 1
  /\ contact_profiles[1].contact_count = 1
  /\ Len(contact_profiles) = 1

\* C27: no two stored contacts have the same phone number, unless it is
\* null, in any state of any sequence of runs from the empty store: whatever
\* the files, the mode and the thresholds of each run, whether or not the
\* read of the known contacts failed, and whichever loads failed before.
C27_StoredPhonesDistinct ==
  \A i \in 1..Len(contacts), j \in 1..Len(contacts) :
    (i # j /\ ~isna(contacts[i].phone_number))
    => contacts[i].phone_number # contacts[j].phone_number

\* C27: a live run whose read of the known contacts failed (the store is not
\* empty, the index is) has accepted a batch with a phone number that is
\* stored, and the load of that batch raised.
C27_Witness ==
  /\ pc = "loop"
  /\ ~dry_run
  /\ contacts # <<>>
  /\ existing_phones = <<>>
  /\ last_load.result = "raised"
  /\ last_load.file = file_idx - 1
  /\ \E i \in 1..Len(cleaned_df), j \in 1..Len(contacts) :
       /\ ~isna(cleaned_df[i].phone_number)
       /\ cleaned_df[i].phone_number = contacts[j].phone_number

\* A step inside a run: main() is in its for loop before and has not
\* returned after
InsideRun == pc = "loop" /\ pc' \in {"loop", "finally"}

\* l is l0 with the entries of more behind it
ExtendedBy(l, l0, more) == l = l0 \o more

\* C28: a step inside a run leaves the index as it is, except the step of a
\* file whose batch a live run has just loaded without error, which puts
\* the batch's phone numbers and lowercased names behind the entries there
\* (so no entry is ever lost or changed); and the accepted batch of every
\* file is what deduplication gives against the index as it stood when the
\* file began, whatever the file itself holds.
C28_IndexOnlyExtended ==
  [][InsideRun
     => /\ IF LoadReturned
           THEN /\ ExtendedBy(existing_names', existing_names,
                      [i \in 1..Len(cleaned_df') |->
                         lower(cleaned_df'[i].company_name)])
                /\ ExtendedBy(existing_phones', existing_phones,
                      [i \in 1..Len(cleaned_df') |->
                         cleaned_df'[i].phone_number])
           ELSE /\ existing_names' = existing_names
                /\ existing_phones' = existing_phones
        /\ Iterated
           => cleaned_df' =
                deduplicate(cleaned'.df, existing_phones, existing_names,
                            enable_fuzzy_matching,
                            company_name_threshold).accepted]_vars

\* C28: a live run with fuzzy matching on has just loaded a file in which
\* two names reach the threshold against each other; both were accepted and
\* both are in the index now, behind the entries of a file loaded before.
C28_Witness ==
  /\ pc = "loop"
  /\ ~dry_run
  /\ enable_fuzzy_matching
  /\ last_load.result = "ok"
  /\ last_load.file = file_idx - 1
  /\ Len(existing_names) > Len(cleaned_df)
  /\ \E i \in 1..Len(cleaned_df), j \in 1..Len(cleaned_df) :
       /\ i # j
       /\ ScoreGE(token_sort_ratio(lower(cleaned_df[i].company_name),
                                   lower(cleaned_df[j].company_name)),
                  company_name_threshold)
       /\ isin(lower(cleaned_df[i].company_name), existing_names)
       /\ isin(lower(cleaned_df[j].company_name), existing_names)

====
